---------------------------- MODULE Spec2Model ----------------------------
(***************************************************************************)
(* Model of the two utilities of mt5bridge_cpp:                            *)
(*                                                                         *)
(*   - the Bridge Client, python/mt5bridge_py.py: a ctypes binding over    *)
(*     the four entry points of mt5bridge.dll;                             *)
(*   - the Runtime Assembler, scripts/prepare_py_runtime.py: a sequential  *)
(*     download / unzip / copy pipeline.                                   *)
(*                                                                         *)
(* The two components share no state.  Spec is the Bridge Client driven    *)
(* by an arbitrary sequence of calls against an opaque native library;     *)
(* AssemblerSpec is one run of the Assembler's main().                     *)
(*                                                                         *)
(* Representation of Python values                                         *)
(*   bytes received from the DLL : sequence of byte values 0..255          *)
(*   str decoded from them       : sequence of Unicode code points         *)
(*   c_char_p result             : [null, bytes]; null is Python's None    *)
(*   str built for a request     : TLA+ string (json.dumps output, ASCII)  *)
(*   str given by the caller     : sequence of one-character strings       *)
(***************************************************************************)
EXTENDS Integers, Sequences, FiniteSets, TLC

VARIABLES
    \* ---- Bridge Client ----
    lifecycle,        \* ghost: what the caller has done to the native runtime
    nativeLastError,  \* the DLL's process-wide last-error string (c_char_p)
    call,             \* the latest binding call: what was sent, returned, raised
    \* ---- Runtime Assembler ----
    pc,               \* position of main() in the pipeline
    wheels,           \* args.wheels: the dependency package URLs, in order
    supportExists,    \* whether python/mt5bridge_py.py exists in the repository
    wheelIdx,         \* index of the wheel the for loop is at
    outputDir,        \* the output directory: [exists, files, partial]
    tmpDir,           \* the TemporaryDirectory: [exists, files, partial]
    log,              \* ghost: the pipeline steps run so far, in order
    exitStatus,       \* process exit status, -1 while running
    stderr            \* lines written to the error stream

bridgeVars == <<lifecycle, nativeLastError, call>>
assemblerVars == <<pc, wheels, supportExists, wheelIdx, outputDir, tmpDir,
                   log, exitStatus, stderr>>
vars == <<lifecycle, nativeLastError, call,
          pc, wheels, supportExists, wheelIdx, outputDir, tmpDir,
          log, exitStatus, stderr>>

-----------------------------------------------------------------------------
(***************************************************************************)
(* Bounds of the model.                                                    *)
(***************************************************************************)
\* Longest response text (in code points) the native library hands back.
MaxTextLen == 2

\* Longest last-error text (in code points) the native library keeps.
MaxErrorLen == 1

\* Largest number of --wheels arguments.
MaxWheels == 2

-----------------------------------------------------------------------------
(***************************************************************************)
(* UTF-8, as bytes.decode("utf-8") and str.encode("utf-8") compute it.     *)
(***************************************************************************)
\* 'A' (one byte in UTF-8) and e-acute (two bytes).
CodePoints == {65, 233}

Utf8EncodeOne(cp) ==
    IF cp < 128 THEN <<cp>>
    ELSE IF cp < 2048 THEN <<192 + (cp \div 64), 128 + (cp % 64)>>
    ELSE <<224 + (cp \div 4096), 128 + ((cp \div 64) % 64), 128 + (cp % 64)>>

RECURSIVE Utf8Encode(_)
Utf8Encode(text) ==
    IF text = <<>> THEN <<>>
    ELSE Utf8EncodeOne(Head(text)) \o Utf8Encode(Tail(text))

IsContinuation(b) == b >= 128 /\ b < 192

\* Strict decoding: [ok, text]; ok is FALSE where Python raises
\* UnicodeDecodeError.
RECURSIVE Utf8Decode(_)
Utf8Decode(bytes) ==
    IF bytes = <<>> THEN [ok |-> TRUE, text |-> <<>>]
    ELSE LET b1 == bytes[1]
             n  == IF b1 < 128 THEN 1
                   ELSE IF b1 >= 194 /\ b1 < 224 THEN 2
                   ELSE IF b1 >= 224 /\ b1 < 240 THEN 3
                   ELSE 0
             wellFormed ==
                 /\ n > 0
                 /\ Len(bytes) >= n
                 /\ \A i \in 2..n : IsContinuation(bytes[i])
             cp == IF n = 1 THEN b1
                   ELSE IF n = 2 THEN (b1 - 192) * 64 + (bytes[2] - 128)
                   ELSE (b1 - 224) * 4096 + (bytes[2] - 128) * 64 + (bytes[3] - 128)
         IN  IF ~wellFormed \/ (n = 3 /\ cp < 2048)
             THEN [ok |-> FALSE, text |-> <<>>]
             ELSE LET rest == Utf8Decode(SubSeq(bytes, n + 1, Len(bytes)))
                  IN  [ok |-> rest.ok,
                       text |-> IF rest.ok THEN <<cp>> \o rest.text ELSE <<>>]

-----------------------------------------------------------------------------
(***************************************************************************)
(* The native library, seen through ctypes.                                *)
(***************************************************************************)
\* restype c_char_p: a NULL pointer arrives as None, anything else as the
\* bytes up to the terminating NUL.
CNull == [null |-> TRUE, bytes |-> <<>>]
CStr(b) == [null |-> FALSE, bytes |-> b]

\* The texts of at most n code points; the payloads of the native boundary
\* are UTF-8 text.
Texts(n) == UNION {[1..k -> CodePoints] : k \in 0..n}

\* What mt5bridge_eval_json can return.
Responses == {CNull} \cup {CStr(Utf8Encode(t)) : t \in Texts(MaxTextLen)}

\* What mt5bridge_last_error can return.
LastErrors == {CNull} \cup {CStr(Utf8Encode(t)) : t \in Texts(MaxErrorLen)}

\* restype c_int: what mt5bridge_initialize can return.
StatusCodes == {-1, 0, 1, 2}

\* Python's truth value of a c_char_p result: None and b"" are both false.
Truthy(c) == ~c.null /\ c.bytes # <<>>

\* c_char_p(...).value: the bytes up to the first NUL.
RECURSIVE CharPtrValue(_)
CharPtrValue(bytes) ==
    IF bytes = <<>> \/ Head(bytes) = 0 THEN <<>>
    ELSE <<Head(bytes)>> \o CharPtrValue(Tail(bytes))


-----------------------------------------------------------------------------
(***************************************************************************)
(* json.dumps(request).encode("utf-8"), for the requests the binding       *)
(* builds: a dict whose keys are literals and whose values are str, int    *)
(* or float.  A dict is the sequence of its items in insertion order.      *)
(***************************************************************************)
StrVal(chars) == [type |-> "str", chars |-> chars, num |-> 0]
IntVal(n) == [type |-> "int", chars |-> <<>>, num |-> n]
\* A float with at most two decimals, held in hundredths (lots: 0.01, 1.5).
FloatVal(hundredths) == [type |-> "float", chars |-> <<>>, num |-> hundredths]

\* The escapes json.dumps applies to printable ASCII.
JsonEscapeChar(c) ==
    IF c = "\"" THEN "\\\""
    ELSE IF c = "\\" THEN "\\\\"
    ELSE c

RECURSIVE JsonEscape(_)
JsonEscape(chars) ==
    IF chars = <<>> THEN ""
    ELSE JsonEscapeChar(Head(chars)) \o JsonEscape(Tail(chars))

JsonString(chars) == "\"" \o JsonEscape(chars) \o "\""

\* float.__repr__ of a non-negative float with at most two decimals.
FloatRepr(hundredths) ==
    LET whole == hundredths \div 100
        frac  == hundredths % 100
    IN  ToString(whole) \o "." \o
        (IF frac % 10 = 0 THEN ToString(frac \div 10)
         ELSE ToString(frac \div 10) \o ToString(frac % 10))

JsonValue(v) ==
    IF v.type = "str" THEN JsonString(v.chars)
    ELSE IF v.type = "int" THEN ToString(v.num)
    ELSE FloatRepr(v.num)

\* Items joined by the default item separator ", ", key and value by ": ".
RECURSIVE JsonItems(_)
JsonItems(items) ==
    IF items = <<>> THEN ""
    ELSE "\"" \o Head(items)[1] \o "\": " \o JsonValue(Head(items)[2]) \o
         (IF Tail(items) = <<>> THEN "" ELSE ", " \o JsonItems(Tail(items)))

JsonDumps(request) == "{" \o JsonItems(request) \o "}"

\* str.encode("utf-8") of json.dumps output: ensure_ascii leaves only ASCII,
\* one byte per character; the bytes object is kept as the text it spells.
EncodeRequest(text) == [encoding |-> "utf-8", ascii |-> text]

-----------------------------------------------------------------------------
(***************************************************************************)
(* python/mt5bridge_py.py                                                  *)
(***************************************************************************)
\* "unknown error"
UnknownError == <<117, 110, 107, 110, 111, 119, 110, 32, 101, 114, 114, 111, 114>>

ReturnNone == [kind |-> "return", exc |-> "", isNone |-> TRUE, text |-> <<>>]
ReturnStr(text) == [kind |-> "return", exc |-> "", isNone |-> FALSE, text |-> text]
Raise(exc, msg) == [kind |-> "raise", exc |-> exc, isNone |-> FALSE, text |-> msg]

NoCall ==
    [op |-> "none", args |-> <<>>, request |-> <<>>, sent |-> <<>>,
     native |-> <<>>, status |-> 0, response |-> CNull, errRead |-> CNull,
     outcome |-> ReturnNone]

\* msg = err.decode("utf-8") if err else "unknown error"; raise RuntimeError(msg)
RaiseLastError(err) ==
    IF Truthy(err)
    THEN LET d == Utf8Decode(err.bytes)
         IN  IF d.ok THEN Raise("RuntimeError", d.text)
             ELSE Raise("UnicodeDecodeError", <<>>)
    ELSE Raise("RuntimeError", UnknownError)

\* Variant of _check_error that takes only negative codes for failures.
CheckErrorNegativeOnly(code, err) ==
    IF code < 0
    THEN [native |-> <<"mt5bridge_last_error">>, errRead |-> err,
          outcome |-> RaiseLastError(err)]
    ELSE [native |-> <<>>, errRead |-> CNull, outcome |-> ReturnNone]

\* _check_error(code); err is what mt5bridge_last_error() returns when called.
\* [native calls made, value read, outcome].
CheckError(code, err) ==
    IF code # 0
    THEN [native |-> <<"mt5bridge_last_error">>, errRead |-> err,
          outcome |-> RaiseLastError(err)]
    ELSE [native |-> <<>>, errRead |-> CNull, outcome |-> ReturnNone]

\* init(python_home), the native call returning status and leaving err behind.
InitCall(python_home, status, err) ==
    LET chk == CheckError(status, err)
    IN  [op |-> "init", args |-> <<python_home>>, request |-> <<>>,
         sent |-> python_home,
         native |-> <<"mt5bridge_initialize">> \o chk.native,
         status |-> status, response |-> CNull, errRead |-> chk.errRead,
         outcome |-> chk.outcome]

\* Variant of shutdown that also fetches the last error.
ShutdownCallReadsError ==
    [op |-> "shutdown", args |-> <<>>, request |-> <<>>, sent |-> <<>>,
     native |-> <<"mt5bridge_shutdown", "mt5bridge_last_error">>, status |-> 0,
     response |-> CNull, errRead |-> CNull, outcome |-> ReturnNone]

\* shutdown()
ShutdownCall ==
    [op |-> "shutdown", args |-> <<>>, request |-> <<>>, sent |-> <<>>,
     native |-> <<"mt5bridge_shutdown">>, status |-> 0, response |-> CNull,
     errRead |-> CNull, outcome |-> ReturnNone]

\* Variant of _eval without the check of the response.
EvalCallUnchecked(request, response, err) ==
    [op |-> "_eval", args |-> <<request>>, request |-> request,
     sent |-> EncodeRequest(JsonDumps(request)), status |-> 0,
     response |-> response, native |-> <<"mt5bridge_eval_json">>,
     errRead |-> CNull,
     outcome |-> ReturnStr(Utf8Decode(CharPtrValue(response.bytes)).text)]

\* Variant of _eval that tests "response is None" instead of "not response".
EvalCallNoneOnly(request, response, err) ==
    LET base == [op |-> "_eval", args |-> <<request>>, request |-> request,
                 sent |-> EncodeRequest(JsonDumps(request)), status |-> 0,
                 response |-> response]
    IN  IF response.null
        THEN base @@ [native |-> <<"mt5bridge_eval_json", "mt5bridge_last_error">>,
                      errRead |-> err, outcome |-> RaiseLastError(err)]
        ELSE base @@ [native |-> <<"mt5bridge_eval_json">>, errRead |-> CNull,
                      outcome |-> ReturnStr(Utf8Decode(CharPtrValue(response.bytes)).text)]

\* Variant of _eval that refuses to call the library unless the caller has
\* initialized it.
EvalCallGuarded(request, response, err) ==
    LET base == [op |-> "_eval", args |-> <<request>>, request |-> request,
                 sent |-> EncodeRequest(JsonDumps(request)), status |-> 0,
                 response |-> response]
    IN  IF lifecycle # "initialized"
        THEN base @@ [native |-> <<>>, errRead |-> CNull,
                      outcome |-> Raise("RuntimeError", UnknownError)]
        ELSE IF ~Truthy(response)
        THEN base @@ [native |-> <<"mt5bridge_eval_json", "mt5bridge_last_error">>,
                      errRead |-> err, outcome |-> RaiseLastError(err)]
        ELSE base @@ [native |-> <<"mt5bridge_eval_json">>, errRead |-> CNull,
                      outcome |-> ReturnStr(Utf8Decode(CharPtrValue(response.bytes)).text)]

\* _eval(request), the native call returning response and leaving err behind.
EvalCall(request, response, err) ==
    LET request_json == EncodeRequest(JsonDumps(request))
        base == [op |-> "_eval", args |-> <<request>>, request |-> request,
                 sent |-> request_json, status |-> 0, response |-> response]
    IN  IF ~Truthy(response)
        THEN base @@ [native |-> <<"mt5bridge_eval_json", "mt5bridge_last_error">>,
                      errRead |-> err, outcome |-> RaiseLastError(err)]
        ELSE LET d == Utf8Decode(CharPtrValue(response.bytes))
             IN  base @@ [native |-> <<"mt5bridge_eval_json">>,
                          errRead |-> CNull,
                          outcome |-> IF d.ok THEN ReturnStr(d.text)
                                      ELSE Raise("UnicodeDecodeError", <<>>)]

\* Variant of the get_m1_bars request with the count fixed.
GetM1BarsRequestFixedCount(symbol, count) ==
    <<<<"method", StrVal(<<"g", "e", "t", "_", "m", "1", "_", "b", "a", "r", "s">>)>>,
      <<"symbol", StrVal(symbol)>>,
      <<"count", IntVal(10)>>>>

GetM1BarsRequest(symbol, count) ==
    <<<<"method", StrVal(<<"g", "e", "t", "_", "m", "1", "_", "b", "a", "r", "s">>)>>,
      <<"symbol", StrVal(symbol)>>,
      <<"count", IntVal(count)>>>>

OpenMarketBuyRequest(symbol, volume) ==
    <<<<"method", StrVal(<<"o", "p", "e", "n", "_", "m", "a", "r", "k", "e", "t",
                           "_", "b", "u", "y">>)>>,
      <<"symbol", StrVal(symbol)>>,
      <<"volume", FloatVal(volume)>>>>

\* get_m1_bars_json(symbol, count)
GetM1BarsCall(symbol, count, response, err) ==
    [EvalCall(GetM1BarsRequest(symbol, count), response, err)
        EXCEPT !.op = "get_m1_bars_json", !.args = <<symbol, count>>]

\* open_market_buy(symbol, volume)
OpenMarketBuyCall(symbol, volume, response, err) ==
    [EvalCall(OpenMarketBuyRequest(symbol, volume), response, err)
        EXCEPT !.op = "open_market_buy", !.args = <<symbol, volume>>]

-----------------------------------------------------------------------------
(***************************************************************************)
(* The caller: any sequence of binding calls, with any arguments, against  *)
(* a library that may answer anything its signatures allow.                *)
(***************************************************************************)
EURUSD == <<"E", "U", "R", "U", "S", "D">>

PythonHomes == {"C:\\mt5\\py_runtime", ""}
Symbols == {EURUSD, <<"X", "\"", "Y">>}
Counts == {1, 10}
Volumes == {1, 150}
Requests ==
    { <<<<"method", StrVal(<<"p", "i", "n", "g">>)>>, <<"id", IntVal(-7)>>>> }

AssemblerIdle == UNCHANGED assemblerVars

\* The library is opaque.  A call that reports failure (a non-zero status, a
\* null or empty response) may leave any last-error text behind, or none; one
\* that reports success leaves the text as it was or resets it.
ErrorsAfter(succeeded) ==
    IF succeeded THEN {nativeLastError, CNull} ELSE LastErrors

Initialize ==
    \E python_home \in PythonHomes, status \in StatusCodes :
      \E err \in ErrorsAfter(status = 0) :
        /\ call' = InitCall(python_home, status, err)
        /\ nativeLastError' = err
        /\ lifecycle' = IF status = 0 THEN "initialized" ELSE lifecycle
        /\ AssemblerIdle

Shutdown ==
    \E err \in LastErrors :
        /\ call' = ShutdownCall
        /\ nativeLastError' = err
        /\ lifecycle' = "shutdown"
        /\ AssemblerIdle

Evaluate ==
    \E request \in Requests, response \in Responses :
      \E err \in ErrorsAfter(Truthy(response)) :
        /\ call' = EvalCall(request, response, err)
        /\ nativeLastError' = err
        /\ UNCHANGED lifecycle
        /\ AssemblerIdle

GetM1Bars ==
    \E symbol \in Symbols, count \in Counts,
       response \in Responses :
      \E err \in ErrorsAfter(Truthy(response)) :
        /\ call' = GetM1BarsCall(symbol, count, response, err)
        /\ nativeLastError' = err
        /\ UNCHANGED lifecycle
        /\ AssemblerIdle

OpenMarketBuy ==
    \E symbol \in Symbols, volume \in Volumes,
       response \in Responses :
      \E err \in ErrorsAfter(Truthy(response)) :
        /\ call' = OpenMarketBuyCall(symbol, volume, response, err)
        /\ nativeLastError' = err
        /\ UNCHANGED lifecycle
        /\ AssemblerIdle

BridgeInit ==
    /\ lifecycle = "fresh"
    /\ nativeLastError = CNull
    /\ call = NoCall

-----------------------------------------------------------------------------
(***************************************************************************)
(* scripts/prepare_py_runtime.py                                           *)
(*                                                                         *)
(* A directory is [exists, files, partial]: the paths in it (relative to   *)
(* it) and those of them that hold truncated content.  A URL is the        *)
(* sequence of its "/"-separated segments.                                 *)
(***************************************************************************)
NoDir == [exists |-> FALSE, files |-> {}, partial |-> {}]
EmptyDir == [exists |-> TRUE, files |-> {}, partial |-> {}]

PythonUrl == <<"https:", "", "www.python.org", "python-3.11.5-embed-amd64.zip">>
WheelUrls ==
    { <<"https:", "", "files.pythonhosted.org", "numpy.whl">>,
      <<"https:", "", "mirror.example", "numpy.whl">>,
      <<"https:", "", "files.pythonhosted.org", "pytz.whl">> }

PythonZip == "python_embed.zip"
SitePackages == "Lib/site-packages"
BridgeModule == "mt5bridge_py.py"
CouldNotFind == "Could not find python/mt5bridge_py.py"
Traceback == "Traceback (most recent call last):"

\* url.rsplit("/", 1)[-1]
WheelName(url) == url[Len(url)]

\* What the archives hold.
RuntimeMembers == {"python.exe", "python311.zip"}
WheelMembers(name) == {name \o "/__init__.py", name \o ".dist-info/METADATA"}

\* How a download can end: completely; with urlopen or dest.open raising
\* (nothing written); with response.read raising (dest left truncated).
DownloadResults == {"ok", "fail_open", "fail_read"}
\* How an extraction can end: completely; with ZipFile() raising (nothing
\* written); with extractall raising after some members were written.
ExtractResults == {"ok", "fail_open", "fail_member"}

Failed(result) == result # "ok"

\* download(url, dest) into directory dir.
Download(dest, result, dir) ==
    IF result = "ok"
    THEN [dir EXCEPT !.files = @ \cup {dest}, !.partial = @ \ {dest}]
    ELSE IF result = "fail_read"
    THEN [dir EXCEPT !.files = @ \cup {dest}, !.partial = @ \cup {dest}]
    ELSE dir

\* ZipFile(archive).extractall(dest): the members written land under prefix;
\* on "fail_member" only those in written are complete.
ExtractAll(members, prefix, result, written, dir) ==
    LET paths(ms) == {prefix \o m : m \in ms}
    IN  IF result = "ok"
        THEN [dir EXCEPT !.files = @ \cup paths(members),
                         !.partial = @ \ paths(members)]
        ELSE IF result = "fail_member"
        THEN [dir EXCEPT !.files = @ \cup paths(written),
                         !.partial = @ \ paths(written)]
        ELSE dir

\* Path.mkdir(parents=True, exist_ok=True)
Mkdir(paths, dir) == [dir EXCEPT !.exists = TRUE, !.files = @ \cup paths]

\* Variant in which leaving the with block removes nothing.
TemporaryDirectoryKept(dir) == dir

\* tempfile.TemporaryDirectory().__exit__: the directory and all in it go.
TemporaryDirectoryExit(dir) == NoDir

\* Variant in which an error rolls the output directory back.
OutputDirRolledBack(dir) == EmptyDir

\* What an error does to the output directory on its way out of main().
OutputDirOnError(dir) == dir

\* shutil.copy2(src_bridge, site_packages / "mt5bridge_py.py")
CopySupport(dir) ==
    [dir EXCEPT !.files = @ \cup {SitePackages \o "/" \o BridgeModule},
                !.partial = @ \ {SitePackages \o "/" \o BridgeModule}]

\* Variant without the check for the support file.
SupportNeverMissing == FALSE

\* if not src_bridge.exists()
SupportMissing == ~supportExists

\* Entries of the ghost log: the step, what it worked on, how it ended and
\* the paths it wrote under the output directory.
DownloadStep(url, dest, result, wrote) ==
    [step |-> "download", arg |-> url \o <<"->", dest>>, result |-> result,
     wrote |-> wrote]
ExtractStep(archive, dest, result, wrote) ==
    [step |-> "extract", arg |-> <<archive, "->", dest>>, result |-> result,
     wrote |-> wrote]
MkdirStep(path) ==
    [step |-> "mkdir", arg |-> <<path>>, result |-> "ok", wrote |-> {"Lib", path}]
CopyStep ==
    [step |-> "copy", arg |-> <<BridgeModule, "->", SitePackages>>, result |-> "ok",
     wrote |-> {SitePackages \o "/" \o BridgeModule}]

BridgeIdle == UNCHANGED bridgeVars

\* An exception nobody catches leaves main(): traceback on stderr, exit
\* status 1; dir is the output directory as the failing step left it.
Unhandled(dir) ==
    /\ pc' = "raised"
    /\ exitStatus' = 1
    /\ stderr' = Append(stderr, Traceback)
    /\ outputDir' = OutputDirOnError(dir)

\* Variant of the loop that stops one wheel short.
LoopToOneShort(i) ==
    IF i < Len(wheels)
    THEN pc' = "wheel_download" /\ wheelIdx' = i
    ELSE pc' = "exit_tmp" /\ wheelIdx' = wheelIdx

\* for url in args.wheels: where the loop goes once wheel i - 1 is done.
LoopTo(i) ==
    IF i <= Len(wheels)
    THEN pc' = "wheel_download" /\ wheelIdx' = i
    ELSE pc' = "exit_tmp" /\ wheelIdx' = wheelIdx

\* output_dir.mkdir(parents=True, exist_ok=True)
MkOutputDir ==
    /\ pc = "mkdir_output"
    /\ outputDir' = Mkdir({}, outputDir)
    /\ pc' = "download_python"
    /\ UNCHANGED <<wheels, supportExists, wheelIdx, tmpDir, log, exitStatus, stderr>>
    /\ BridgeIdle

\* download(args.python_url, python_zip)
DownloadPython ==
    /\ pc = "download_python"
    /\ \E result \in DownloadResults :
        LET dir == Download(PythonZip, result, outputDir)
            wrote == IF result = "fail_open" THEN {} ELSE {PythonZip}
        IN  /\ log' = Append(log, DownloadStep(PythonUrl, PythonZip, result, wrote))
            /\ IF Failed(result)
               THEN Unhandled(dir)
               ELSE /\ outputDir' = dir
                    /\ pc' = "extract_python"
                    /\ UNCHANGED <<exitStatus, stderr>>
    /\ UNCHANGED <<wheels, supportExists, wheelIdx, tmpDir>>
    /\ BridgeIdle

\* extract_zip(python_zip, output_dir)
ExtractPython ==
    /\ pc = "extract_python"
    /\ \E result \in ExtractResults, written \in SUBSET RuntimeMembers :
        /\ written # RuntimeMembers
        /\ result # "fail_member" => written = {}
        /\ LET dir == ExtractAll(RuntimeMembers, "", result, written, outputDir)
               wrote == IF result = "ok" THEN RuntimeMembers ELSE written
           IN  /\ log' = Append(log, ExtractStep(PythonZip, ".", result, wrote))
               /\ IF Failed(result)
                  THEN Unhandled(dir)
                  ELSE /\ outputDir' = dir
                       /\ pc' = "mkdir_site_packages"
                       /\ UNCHANGED <<exitStatus, stderr>>
    /\ UNCHANGED <<wheels, supportExists, wheelIdx, tmpDir>>
    /\ BridgeIdle

\* site_packages.mkdir(parents=True, exist_ok=True)
MkSitePackages ==
    /\ pc = "mkdir_site_packages"
    /\ outputDir' = Mkdir({"Lib", SitePackages}, outputDir)
    /\ log' = Append(log, MkdirStep(SitePackages))
    /\ pc' = "enter_tmp"
    /\ UNCHANGED <<wheels, supportExists, wheelIdx, tmpDir, exitStatus, stderr>>
    /\ BridgeIdle

\* with tempfile.TemporaryDirectory() as tmpdir:
EnterTmp ==
    /\ pc = "enter_tmp"
    /\ tmpDir' = EmptyDir
    /\ LoopTo(1)
    /\ UNCHANGED <<wheels, supportExists, outputDir, log, exitStatus, stderr>>
    /\ BridgeIdle

\* download(url, wheel_path); an error leaves the with block on its way out.
DownloadWheel ==
    /\ pc = "wheel_download"
    /\ \E result \in DownloadResults :
        LET url == wheels[wheelIdx]
            wheel_name == WheelName(url)
            tmp == Download(wheel_name, result, tmpDir)
        IN  /\ log' = Append(log, DownloadStep(url, "tmp/" \o wheel_name, result, {}))
            /\ IF Failed(result)
               THEN /\ tmpDir' = TemporaryDirectoryExit(tmp)
                    /\ Unhandled(outputDir)
               ELSE /\ tmpDir' = tmp
                    /\ pc' = "wheel_extract"
                    /\ UNCHANGED <<outputDir, exitStatus, stderr>>
    /\ UNCHANGED <<wheels, supportExists, wheelIdx>>
    /\ BridgeIdle

\* extract_wheel(wheel_path, site_packages), then the next wheel.
ExtractWheel ==
    /\ pc = "wheel_extract"
    /\ \E result \in ExtractResults,
          written \in SUBSET WheelMembers(WheelName(wheels[wheelIdx])) :
        LET wheel_name == WheelName(wheels[wheelIdx])
            members == WheelMembers(wheel_name)
            prefix == SitePackages \o "/"
            dir == ExtractAll(members, prefix, result, written, outputDir)
            wrote == {prefix \o m : m \in IF result = "ok" THEN members ELSE written}
        IN  /\ written # members
            /\ result # "fail_member" => written = {}
            /\ log' = Append(log, ExtractStep(wheel_name, SitePackages, result, wrote))
            /\ IF Failed(result)
               THEN /\ tmpDir' = TemporaryDirectoryExit(tmpDir)
                    /\ Unhandled(dir)
                    /\ UNCHANGED wheelIdx
               ELSE /\ outputDir' = dir
                    /\ LoopTo(wheelIdx + 1)
                    /\ UNCHANGED <<tmpDir, exitStatus, stderr>>
    /\ UNCHANGED <<wheels, supportExists>>
    /\ BridgeIdle

\* The with block ends normally.
ExitTmp ==
    /\ pc = "exit_tmp"
    /\ tmpDir' = TemporaryDirectoryExit(tmpDir)
    /\ pc' = "copy_support"
    /\ UNCHANGED <<wheels, supportExists, wheelIdx, outputDir, log, exitStatus, stderr>>
    /\ BridgeIdle

\* The support file: sys.exit(1) with a message when it is missing, else
\* shutil.copy2 and main() returns.
CopySupportFile ==
    /\ pc = "copy_support"
    /\ IF SupportMissing
       THEN /\ stderr' = Append(stderr, CouldNotFind)
            /\ exitStatus' = 1
            /\ pc' = "sys_exit"
            /\ UNCHANGED <<outputDir, log>>
       ELSE /\ outputDir' = CopySupport(outputDir)
            /\ log' = Append(log, CopyStep)
            /\ exitStatus' = 0
            /\ pc' = "done"
            /\ UNCHANGED stderr
    /\ UNCHANGED <<wheels, supportExists, wheelIdx, tmpDir>>
    /\ BridgeIdle

\* One command line: any list of at most MaxWheels wheel URLs.
WheelLists == UNION {[1..n -> WheelUrls] : n \in 0..MaxWheels}

AssemblerStart ==
    /\ pc = "mkdir_output"
    /\ wheelIdx = 0
    /\ outputDir = NoDir
    /\ tmpDir = NoDir
    /\ log = <<>>
    /\ exitStatus = -1
    /\ stderr = <<>>

AssemblerInit ==
    /\ wheels \in WheelLists
    /\ supportExists \in BOOLEAN
    /\ AssemblerStart

-----------------------------------------------------------------------------
(***************************************************************************)
(* Specifications.                                                         *)
(***************************************************************************)
\* The Bridge Client; the Assembler is not run.
Init ==
    /\ BridgeInit
    /\ wheels = <<>>
    /\ supportExists = TRUE
    /\ AssemblerStart

Next ==
    \/ Initialize
    \/ Shutdown
    \/ Evaluate
    \/ GetM1Bars
    \/ OpenMarketBuy

Spec == Init /\ [][Next]_vars

\* One run of the Assembler; the Bridge Client is not called.
AssemblerSpecInit == BridgeInit /\ AssemblerInit

AssemblerNext ==
    \/ MkOutputDir
    \/ DownloadPython
    \/ ExtractPython
    \/ MkSitePackages
    \/ EnterTmp
    \/ DownloadWheel
    \/ ExtractWheel
    \/ ExitTmp
    \/ CopySupportFile

AssemblerSpec == AssemblerSpecInit /\ [][AssemblerNext]_vars

-----------------------------------------------------------------------------
(***************************************************************************)
(* Properties of the Bridge Client (checked under Spec).                   *)
(***************************************************************************)
EvalJson == "mt5bridge_eval_json"
LastError == "mt5bridge_last_error"

Count(seq, x) == Cardinality({i \in 1..Len(seq) : seq[i] = x})

\* The native library holds an error text: a non-null, non-empty string.
ErrorTextAvailable == ~nativeLastError.null /\ nativeLastError.bytes # <<>>

\* The call raised RuntimeError with the text the library holds, or with
\* "unknown error" when it holds none.
RaisedLastErrorOrFallback ==
    /\ call.outcome.kind = "raise"
    /\ call.outcome.exc = "RuntimeError"
    /\ IF ErrorTextAvailable
       THEN Utf8Encode(call.outcome.text) = nativeLastError.bytes
       ELSE call.outcome.text = UnknownError

\* The call returned the response as text: encoding what was returned gives
\* back the very bytes the library answered.
ReturnedResponseText ==
    /\ call.outcome.kind = "return"
    /\ ~call.outcome.isNone
    /\ Utf8Encode(call.outcome.text) = call.response.bytes

PingRequest == <<<<"method", StrVal(<<"p", "i", "n", "g">>)>>, <<"id", IntVal(-7)>>>>

C2_AsStated ==
    call.op = "init" =>
        /\ (call.outcome.kind = "raise") <=> (call.status # 0)
        /\ (call.status # 0 /\ ~nativeLastError.null) =>
              /\ call.outcome.exc = "RuntimeError"
              /\ Utf8Encode(call.outcome.text) = nativeLastError.bytes

\* C2, amended: initialize raises iff the status is non-zero; the RuntimeError
\* carries the native last-error string when that is non-null and non-empty,
\* and "unknown error" otherwise.
C2_InitializeRaisesIffNonZero ==
    call.op = "init" =>
        /\ (call.outcome.kind = "raise") <=> (call.status # 0)
        /\ call.status = 0 => call.outcome = ReturnNone
        /\ call.status # 0 => RaisedLastErrorOrFallback

C2_Witness ==
    /\ call.op = "init"
    /\ call.status # 0
    /\ ~nativeLastError.null
    /\ nativeLastError.bytes = <<>>
    /\ call.outcome.kind = "raise"

\* What the binding returns or raises, from what the library answered alone.
OutcomeFromNative ==
    LET raised == IF Truthy(call.errRead)
                  THEN Raise("RuntimeError", Utf8Decode(call.errRead.bytes).text)
                  ELSE Raise("RuntimeError", UnknownError)
    IN  IF call.op = "init"
        THEN IF call.status = 0 THEN ReturnNone ELSE raised
        ELSE IF call.op = "shutdown"
        THEN ReturnNone
        ELSE IF Truthy(call.response)
             THEN ReturnStr(Utf8Decode(call.response.bytes).text)
             ELSE raised

EntryPoint ==
    IF call.op = "init" THEN "mt5bridge_initialize"
    ELSE IF call.op = "shutdown" THEN "mt5bridge_shutdown"
    ELSE EvalJson

\* C7: whatever the caller did before (nothing, initialize, shutdown), every
\* call is forwarded to its native entry point, and its outcome is a function
\* of its arguments and of what the library returned for it.
C7_NoLifecycleEnforced ==
    call.op # "none" =>
        /\ call.native # <<>>
        /\ call.native[1] = EntryPoint
        /\ call.outcome = OutcomeFromNative

\* An evaluate made after shutdown went through and returned.
C7_Witness ==
    /\ lifecycle = "shutdown"
    /\ call.op = "_eval"
    /\ call.native = <<EvalJson>>
    /\ call.outcome.kind = "return"

MethodGetM1Bars == <<"g", "e", "t", "_", "m", "1", "_", "b", "a", "r", "s">>
MethodOpenMarketBuy ==
    <<"o", "p", "e", "n", "_", "m", "a", "r", "k", "e", "t", "_", "b", "u", "y">>

\* C8: each convenience operation is one evaluate call on a request holding
\* the method discriminator and the caller's two values, nothing else, and
\* its outcome is that of evaluate on this request; for EURUSD and 10 the
\* bytes sent are {"method": "get_m1_bars", "symbol": "EURUSD", "count": 10}.
C8_ConvenienceRequests ==
    /\ call.op = "get_m1_bars_json" =>
          /\ call.request = <<<<"method", StrVal(MethodGetM1Bars)>>,
                              <<"symbol", StrVal(call.args[1])>>,
                              <<"count", IntVal(call.args[2])>>>>
          /\ call.args = <<EURUSD, 10>> =>
                call.sent.ascii =
                  "{\"method\": \"get_m1_bars\", \"symbol\": \"EURUSD\", \"count\": 10}"
    /\ call.op = "open_market_buy" =>
          /\ call.request = <<<<"method", StrVal(MethodOpenMarketBuy)>>,
                              <<"symbol", StrVal(call.args[1])>>,
                              <<"volume", FloatVal(call.args[2])>>>>
          /\ call.args = <<EURUSD, 150>> =>
                call.sent.ascii =
                  "{\"method\": \"open_market_buy\", \"symbol\": \"EURUSD\", \"volume\": 1.5}"
    /\ call.op \in {"get_m1_bars_json", "open_market_buy"} =>
          /\ Count(call.native, EvalJson) = 1
          /\ call.native[1] = EvalJson
          /\ LET e == EvalCall(call.request, call.response, nativeLastError)
             IN  /\ call.sent = e.sent
                 /\ call.native = e.native
                 /\ call.outcome = e.outcome

C8_Witness ==
    /\ call.op = "get_m1_bars_json"
    /\ call.args = <<EURUSD, 10>>
    /\ call.outcome.kind = "return"
    /\ call.outcome.text # <<>>

\* C9: the last-error text is read only when a call failed, once, as the very
\* next native call, and what is raised is the text that call left behind;
\* a successful initialize or evaluate and every shutdown never read it.
C9_LastErrorReadOnlyOnFailure ==
    /\ (call.op = "init" /\ call.status = 0)
          => call.native = <<"mt5bridge_initialize">>
    /\ call.op = "shutdown" => call.native = <<"mt5bridge_shutdown">>
    /\ (call.op \in {"_eval", "get_m1_bars_json", "open_market_buy"}
          /\ Truthy(call.response))
          => call.native = <<EvalJson>>
    /\ call.outcome.kind = "raise" =>
          /\ Len(call.native) = 2
          /\ call.native[1] = EntryPoint
          /\ call.native[2] = LastError
          /\ call.errRead = nativeLastError
          /\ RaisedLastErrorOrFallback
    /\ call.outcome.kind = "return" => Count(call.native, LastError) = 0

\* A failing initialize raised the text the library had just left.
C9_Witness ==
    /\ call.op = "init"
    /\ call.status # 0
    /\ call.native = <<"mt5bridge_initialize", LastError>>
    /\ ErrorTextAvailable
    /\ Utf8Encode(call.outcome.text) = nativeLastError.bytes

\* C10: an empty, non-null response is treated like a null one: the last
\* error is read and RuntimeError raised ("unknown error" when no text is
\* set); evaluate never returns the empty string.
C10_EmptyResponseRaises ==
    call.op \in {"_eval", "get_m1_bars_json", "open_market_buy"} =>
        /\ (~call.response.null /\ call.response.bytes = <<>>) =>
              /\ call.native = <<EvalJson, LastError>>
              /\ RaisedLastErrorOrFallback
        /\ call.outcome.kind = "return" =>
              /\ ~call.outcome.isNone
              /\ call.outcome.text # <<>>

C10_Witness ==
    /\ call.op = "_eval"
    /\ ~call.response.null
    /\ call.response.bytes = <<>>
    /\ call.outcome.kind = "raise"
    /\ call.outcome.text = UnknownError

-----------------------------------------------------------------------------
(***************************************************************************)
(* Properties of the Runtime Assembler (checked under AssemblerSpec).      *)
(***************************************************************************)
Terminated == pc \in {"done", "sys_exit", "raised"}

AllOk(steps) == \A i \in 1..Len(steps) : steps[i].result = "ok"

IsPrefix(a, b) == Len(a) <= Len(b) /\ SubSeq(b, 1, Len(a)) = a

SupportPath == SitePackages \o "/" \o BridgeModule

\* Download and extraction of each wheel of ws, in the order given.
RECURSIVE WheelSteps(_)
WheelSteps(ws) ==
    IF ws = <<>> THEN <<>>
    ELSE LET name == Head(ws)[Len(Head(ws))]
         IN  << DownloadStep(Head(ws), "tmp/" \o name, "ok", {}),
                ExtractStep(name, SitePackages, "ok",
                            {SitePackages \o "/" \o m : m \in WheelMembers(name)}) >>
             \o WheelSteps(Tail(ws))

\* The pipeline up to, and not including, the copy of the support file.
StepsBeforeCopy ==
    << DownloadStep(PythonUrl, PythonZip, "ok", {PythonZip}),
       ExtractStep(PythonZip, ".", "ok", RuntimeMembers),
       MkdirStep(SitePackages) >> \o WheelSteps(wheels)

\* C3: a run in which no step fails does, in this order and once each: the
\* download of the runtime archive, its extraction, the packages directory,
\* download then extraction of each wheel in the order given, the copy of
\* the support file; it ends with exit status 0.
C3_PipelineOrder ==
    /\ AllOk(log) => IsPrefix(log, StepsBeforeCopy \o <<CopyStep>>)
    /\ pc = "done" =>
          /\ log = StepsBeforeCopy \o <<CopyStep>>
          /\ exitStatus = 0
    /\ (Terminated /\ AllOk(log) /\ supportExists) => pc = "done"
    /\ ~Terminated => exitStatus = -1

C3_Witness ==
    /\ pc = "done"
    /\ Len(wheels) >= 2
    /\ wheels[1] # wheels[2]
    /\ Len(log) = 8

\* C4: a failing download or extraction ends the run with the unhandled
\* error; it is the last step run (nothing is downloaded, extracted or copied
\* after it), and what the steps wrote under the output directory, the
\* truncated file of the failing step included, stays there.
C4_FailureStopsRunNoRollback ==
    /\ (\E i \in 1..Len(log) : log[i].result # "ok") => pc = "raised"
    /\ pc = "raised" =>
          /\ log # <<>>
          /\ log[Len(log)].step \in {"download", "extract"}
          /\ log[Len(log)].result # "ok"
          /\ AllOk(SubSeq(log, 1, Len(log) - 1))
          /\ IsPrefix(SubSeq(log, 1, Len(log) - 1), StepsBeforeCopy)
          /\ SupportPath \notin outputDir.files
          /\ \A i \in 1..Len(log) : log[i].wrote \subseteq outputDir.files
          /\ log[Len(log)].result = "fail_read" =>
                log[Len(log)].wrote \subseteq outputDir.partial
          /\ exitStatus = 1
          /\ stderr = <<Traceback>>

\* The extraction of the second wheel failed half way.
C4_Witness ==
    /\ pc = "raised"
    /\ wheelIdx = 2
    /\ log[Len(log)].step = "extract"
    /\ log[Len(log)].result = "fail_member"
    /\ log[Len(log)].wrote # {}
    /\ log[Len(log)].wrote \subseteq outputDir.files

\* C5: with the support file absent at copy time the run writes the message
\* to the error stream and exits with status 1 without copying; by then the
\* runtime and every wheel have been downloaded and extracted; no other step
\* reports an error of its own.
C5_MissingSupportFile ==
    /\ pc = "sys_exit" =>
          /\ ~supportExists
          /\ exitStatus = 1
          /\ stderr = <<CouldNotFind>>
          /\ SupportPath \notin outputDir.files
          /\ log = StepsBeforeCopy
          /\ \A i \in 1..Len(log) : log[i].wrote \subseteq outputDir.files
    /\ pc = "done" => supportExists /\ stderr = <<>>
    /\ (\E i \in 1..Len(stderr) : stderr[i] = CouldNotFind) => pc = "sys_exit"
    /\ (exitStatus # 0 /\ Terminated /\ pc # "sys_exit") =>
          pc = "raised" /\ stderr = <<Traceback>>

C5_Witness ==
    /\ pc = "sys_exit"
    /\ Len(wheels) >= 1
    /\ exitStatus = 1
    /\ PythonZip \in outputDir.files

\* C6: the temporary directory exists only during the wheel step: it is
\* created after the packages directory, and it is gone once the run is at
\* the support file or has ended, with or without an error.
C6_TemporaryDirectoryScoped ==
    /\ tmpDir.exists =>
          /\ pc \in {"wheel_download", "wheel_extract", "exit_tmp"}
          /\ SitePackages \in outputDir.files
    /\ pc \in {"wheel_download", "wheel_extract", "exit_tmp"} => tmpDir.exists
    /\ pc \in {"copy_support", "done", "sys_exit", "raised"} => tmpDir = NoDir
    /\ ~tmpDir.exists => tmpDir.files = {}

\* The download of a wheel failed with the file half written, and the
\* temporary directory is gone.
C6_Witness ==
    /\ pc = "raised"
    /\ Len(log) > 3
    /\ log[Len(log)].step = "download"
    /\ log[Len(log)].result = "fail_read"
    /\ tmpDir = NoDir

=============================================================================
